---- MODULE Spec2Model ----
(***************************************************************************)
(* Air-quality dashboard (src/app.py): the NO2 unit converter              *)
(* convert_tempo_to_ugm3 and the AQI classifier calculate_aqi_no2.         *)
(*                                                                         *)
(* Python floats are IEEE-754 binary64.  A float is modelled bit-exactly   *)
(* as sign * m * 2^e with a 53-bit significand m held as a little-endian   *)
(* sequence of base-1024 limbs, and every arithmetic operation rounds to   *)
(* nearest, ties to even, as the hardware does.                            *)
(***************************************************************************)
EXTENDS Integers, Sequences, FiniteSets

(***************************************************************************)
(* Natural numbers of arbitrary size: little-endian limbs, no high zeros.  *)
(***************************************************************************)
Base == 1024
LimbBits == 10

RECURSIVE BNorm(_)
BNorm(a) ==
    IF a = <<>> THEN <<>>
    ELSE IF a[Len(a)] = 0 THEN BNorm(SubSeq(a, 1, Len(a) - 1))
    ELSE a

RECURSIVE BFromInt(_)
BFromInt(n) ==
    IF n = 0 THEN <<>> ELSE <<n % Base>> \o BFromInt(n \div Base)

RECURSIVE BMulCarry(_, _, _)
BMulCarry(a, k, c) ==
    IF a = <<>> THEN BFromInt(c)
    ELSE LET t == a[1] * k + c
         IN  <<t % Base>> \o BMulCarry(Tail(a), k, t \div Base)

\* a * k for a small multiplier k (k < 2^21)
BMulSmall(a, k) == BNorm(BMulCarry(a, k, 0))

RECURSIVE BDivRaw(_, _)
BDivRaw(a, k) ==
    IF a = <<>> THEN [q |-> <<>>, r |-> 0]
    ELSE LET hi == BDivRaw(Tail(a), k)
             t  == hi.r * Base + a[1]
         IN  [q |-> <<t \div k>> \o hi.q, r |-> t % k]

\* quotient and remainder of a by a small divisor k (k < 2^21)
BDivSmall(a, k) ==
    LET d == BDivRaw(a, k) IN [q |-> BNorm(d.q), r |-> d.r]

RECURSIVE IntBitLen(_)
IntBitLen(n) == IF n = 0 THEN 0 ELSE 1 + IntBitLen(n \div 2)

BBitLen(a) ==
    IF a = <<>> THEN 0
    ELSE LimbBits * (Len(a) - 1) + IntBitLen(a[Len(a)])

Zeros(n) == [i \in 1..n |-> 0]

\* a * 2^n
BShl(a, n) ==
    IF a = <<>> THEN <<>>
    ELSE Zeros(n \div LimbBits) \o BMulSmall(a, 2 ^ (n % LimbBits))

\* floor(a / 2^n)
BShr(a, n) ==
    LET drop == n \div LimbBits
    IN  IF drop >= Len(a) THEN <<>>
        ELSE BDivSmall(SubSeq(a, drop + 1, Len(a)), 2 ^ (n % LimbBits)).q

\* bit i of a (bit 0 is the least significant)
BBit(a, i) ==
    LET j == i \div LimbBits + 1
    IN  IF j > Len(a) THEN 0 ELSE (a[j] \div (2 ^ (i % LimbBits))) % 2

\* a mod 2^n # 0
BLowNonZero(a, n) ==
    LET full == n \div LimbBits
    IN  \/ \E j \in 1..full : j <= Len(a) /\ a[j] # 0
        \/ /\ full + 1 <= Len(a)
           /\ a[full + 1] % (2 ^ (n % LimbBits)) # 0

RECURSIVE BAddCarry(_, _, _)
BAddCarry(a, b, c) ==
    IF a = <<>> /\ b = <<>> THEN BFromInt(c)
    ELSE LET x == IF a = <<>> THEN 0 ELSE a[1]
             y == IF b = <<>> THEN 0 ELSE b[1]
             t == x + y + c
         IN  <<t % Base>> \o BAddCarry(IF a = <<>> THEN <<>> ELSE Tail(a),
                                       IF b = <<>> THEN <<>> ELSE Tail(b),
                                       t \div Base)

BAdd(a, b) == BNorm(BAddCarry(a, b, 0))

RECURSIVE BCmpFrom(_, _, _)
BCmpFrom(a, b, i) ==
    IF i = 0 THEN 0
    ELSE IF a[i] < b[i] THEN -1
    ELSE IF a[i] > b[i] THEN 1
    ELSE BCmpFrom(a, b, i - 1)

\* -1, 0, 1 as a < b, a = b, a > b
BCmp(a, b) ==
    IF Len(a) < Len(b) THEN -1
    ELSE IF Len(a) > Len(b) THEN 1
    ELSE BCmpFrom(a, b, Len(a))

RECURSIVE BSubBorrow(_, _, _)
BSubBorrow(a, b, c) ==
    IF a = <<>> THEN <<>>
    ELSE LET y == IF b = <<>> THEN 0 ELSE b[1]
             t == a[1] - y - c
         IN  <<t % Base>> \o BSubBorrow(Tail(a),
                                        IF b = <<>> THEN <<>> ELSE Tail(b),
                                        IF t < 0 THEN 1 ELSE 0)

\* a - b for a >= b
BSub(a, b) == BNorm(BSubBorrow(a, b, 0))

\* |a - b|
BAbsDiff(a, b) == IF BCmp(a, b) >= 0 THEN BSub(a, b) ELSE BSub(b, a)

(***************************************************************************)
(* binary64 values.  A finite value is (-1)^s * m * 2^e in canonical form: *)
(* a normal number has a 53-bit m, a subnormal one has e = MinExp and a    *)
(* shorter m, zero has m = <<>>.                                           *)
(***************************************************************************)
Precision == 53
MinExp == 0 - 1074
MaxTop == 1024

FNaN == [k |-> "nan", s |-> 0, m |-> <<>>, e |-> 0]
FInf(s) == [k |-> "inf", s |-> s, m |-> <<>>, e |-> 0]
FZero(s) == [k |-> "fin", s |-> s, m |-> <<>>, e |-> 0]

IsFinite(x) == x.k = "fin"
IsNaN(x) == x.k = "nan"
IsZero(x) == x.k = "fin" /\ x.m = <<>>

\* overflow to infinity when the value reaches 2^1024
Pack(s, m, e) ==
    IF m = <<>> THEN FZero(s)
    ELSE IF e + BBitLen(m) > MaxTop THEN FInf(s)
    ELSE [k |-> "fin", s |-> s, m |-> m, e |-> e]

\* The binary64 nearest to (-1)^s * (n + f) * 2^e, ties to even, where
\* 0 <= f < 1 and sticky says f > 0.
RoundPack(s, n, e, sticky) ==
    LET bl == BBitLen(n)
        t  == e + bl - Precision
        E  == IF t > MinExp THEN t ELSE MinExp
        sh == E - e
    IN  IF n = <<>> THEN FZero(s)
        ELSE IF sh <= 0 THEN Pack(s, BShl(n, 0 - sh), E)
        ELSE LET q     == BShr(n, sh)
                 guard == BBit(n, sh - 1)
                 st    == sticky \/ BLowNonZero(n, sh - 1)
                 up    == guard = 1 /\ (st \/ BBit(q, 0) = 1)
                 r     == IF up THEN BAdd(q, <<1>>) ELSE q
             IN  IF BBitLen(r) > Precision
                 THEN Pack(s, BShr(r, 1), E + 1)
                 ELSE Pack(s, r, E)

\* float(n) for a Python int n
FFromInt(n) ==
    IF n < 0 THEN RoundPack(1, BFromInt(0 - n), 0, FALSE)
    ELSE RoundPack(0, BFromInt(n), 0, FALSE)

\* x * k: the float product with the exactly representable integer k > 0
FMulInt(x, k) ==
    IF x.k # "fin" THEN x
    ELSE RoundPack(x.s, BMulSmall(x.m, k), x.e, FALSE)

\* x / k: the float quotient by the exactly representable integer k > 0
FDivInt(x, k) ==
    IF x.k # "fin" THEN x
    ELSE LET S == IntBitLen(k) + 2
             d == BDivSmall(BShl(x.m, S), k)
         IN  RoundPack(x.s, d.q, x.e - S, d.r # 0)

\* x <= n for a float x and an int literal n >= 0 (Python compares exactly)
FLeInt(x, n) ==
    IF x.k = "nan" THEN FALSE
    ELSE IF x.k = "inf" THEN x.s = 1
    ELSE IF x.m = <<>> \/ x.s = 1 THEN TRUE
    ELSE LET top == BBitLen(x.m) + x.e
         IN  IF top > 31 THEN FALSE
             ELSE IF top <= 0 THEN n >= 1
             ELSE IF x.e >= 0
                  THEN BCmp(BShl(x.m, x.e), BFromInt(n)) <= 0
                  ELSE BCmp(x.m, BShl(BFromInt(n), 0 - x.e)) <= 0

\* magnitude order of two finite values in canonical form
MagCmp(x, y) ==
    IF x.m = <<>> /\ y.m = <<>> THEN 0
    ELSE IF x.m = <<>> THEN -1
    ELSE IF y.m = <<>> THEN 1
    ELSE IF x.e < y.e THEN -1
    ELSE IF x.e > y.e THEN 1
    ELSE BCmp(x.m, y.m)

\* x < y on floats (False when either is NaN)
FLess(x, y) ==
    IF x.k = "nan" \/ y.k = "nan" THEN FALSE
    ELSE IF x.k = "inf" THEN x.s = 1 /\ ~(y.k = "inf" /\ y.s = 1)
    ELSE IF y.k = "inf" THEN y.s = 0
    ELSE IF IsZero(x) /\ IsZero(y) THEN FALSE
    ELSE IF x.s # y.s THEN x.s = 1
    ELSE IF x.s = 0 THEN MagCmp(x, y) < 0
    ELSE MagCmp(x, y) > 0

\* x == y on floats
FEq(x, y) ==
    /\ x.k # "nan" /\ y.k # "nan"
    /\ \/ IsZero(x) /\ IsZero(y)
       \/ x = y

FLeq(x, y) == FLess(x, y) \/ FEq(x, y)

\* the next binary64 above a finite x >= 0
NextUp(x) ==
    IF x.m = <<>> THEN Pack(0, <<1>>, MinExp)
    ELSE LET r == BAdd(x.m, <<1>>)
         IN  IF BBitLen(r) > Precision
             THEN Pack(x.s, BShr(r, 1), x.e + 1)
             ELSE Pack(x.s, r, x.e)

\* the next binary64 below a finite x > 0
NextDown(x) ==
    LET r == BSub(x.m, <<1>>)
    IN  IF BBitLen(r) < Precision /\ x.e > MinExp
        THEN Pack(x.s, BAdd(BShl(r, 1), <<1>>), x.e - 1)
        ELSE Pack(x.s, r, x.e)

\* the float a decimal literal d * 10^-p (p <= 6) parses to
Dec(d, p) == FDivInt(FFromInt(d), 10 ^ p)

\* -x
FNeg(x) == IF x.k = "nan" THEN x ELSE [x EXCEPT !.s = 1 - x.s]

(***************************************************************************)
(* State.  row is the table row being processed: its measurement, the      *)
(* concentration the converter returned or raised on, and the              *)
(* classification once the classifier has run.  prev is an earlier row the *)
(* caller has kept.  threads holds, for each thread of the process, the    *)
(* frame of the call it is running: the function, the position in it, the  *)
(* argument, the locals and the value returned.  run is one run of a       *)
(* dashboard script from top to bottom: the checkboxes, the table and its  *)
(* columns, the lists the fetch loops fill, what has been drawn, and the   *)
(* exception that ended the run, if any.                                   *)
(***************************************************************************)
VARIABLES row, prev, threads, run

(***************************************************************************)
(* The program: src/app.py, UTILITY FUNCTIONS and the sample table.        *)
(***************************************************************************)
BOUNDARY_LAYER_HEIGHT == 1000
NO2_MOLECULAR_WEIGHT == 46

\* the function with 10^3 for the ug-per-g factor 1e6
convert_tempo_to_ugm3_milli(tempo_no2_molm2) ==
    FMulInt(FMulInt(FDivInt(tempo_no2_molm2, BOUNDARY_LAYER_HEIGHT),
                    NO2_MOLECULAR_WEIGHT),
            10 ^ 3)

\* the function with the boundary layer height held in a module global that
\* an earlier pass over a row has halved
convert_tempo_to_ugm3_global(tempo_no2_molm2) ==
    FMulInt(FMulInt(FDivInt(tempo_no2_molm2,
                            IF prev.no2_ugm3.k = "None"
                            THEN BOUNDARY_LAYER_HEIGHT
                            ELSE BOUNDARY_LAYER_HEIGHT \div 2),
                    NO2_MOLECULAR_WEIGHT),
            10 ^ 6)

\* no2_ugm3 = (tempo_no2_molm2 / BOUNDARY_LAYER_HEIGHT) * NO2_MOLECULAR_WEIGHT * 1e6
\* evaluated left to right, each operation rounded to binary64
\* a converter that clamps a negative measurement to zero
convert_tempo_to_ugm3_clamped(tempo_no2_molm2) ==
    IF tempo_no2_molm2.k # "nan" /\ tempo_no2_molm2.s = 1
    THEN FZero(0)
    ELSE FMulInt(FMulInt(FDivInt(tempo_no2_molm2, BOUNDARY_LAYER_HEIGHT),
                         NO2_MOLECULAR_WEIGHT), 10 ^ 6)

convert_tempo_to_ugm3(tempo_no2_molm2) ==
    FMulInt(FMulInt(FDivInt(tempo_no2_molm2, BOUNDARY_LAYER_HEIGHT),
                    NO2_MOLECULAR_WEIGHT),
            10 ^ 6)

\* x < n for a float x and an int literal n >= 0
FLtInt(x, n) == FLeInt(x, n) /\ x # FFromInt(n)

\* the chain with < for <=
calculate_aqi_no2_strict(no2_ugm3) ==
    IF FLtInt(no2_ugm3, 53) THEN <<"Good", "#00E400", 0>>
    ELSE IF FLtInt(no2_ugm3, 100) THEN <<"Moderate", "#FFFF00", 1>>
    ELSE IF FLtInt(no2_ugm3, 360)
         THEN <<"Unhealthy for Sensitive Groups", "#FF7E00", 2>>
    ELSE IF FLtInt(no2_ugm3, 649) THEN <<"Unhealthy", "#FF0000", 3>>
    ELSE IF FLtInt(no2_ugm3, 1249) THEN <<"Very Unhealthy", "#8F3F97", 4>>
    ELSE <<"Hazardous", "#7E0023", 5>>

\* the chain with the last breakpoint written 1250
calculate_aqi_no2_1250(no2_ugm3) ==
    IF FLeInt(no2_ugm3, 53) THEN <<"Good", "#00E400", 0>>
    ELSE IF FLeInt(no2_ugm3, 100) THEN <<"Moderate", "#FFFF00", 1>>
    ELSE IF FLeInt(no2_ugm3, 360)
         THEN <<"Unhealthy for Sensitive Groups", "#FF7E00", 2>>
    ELSE IF FLeInt(no2_ugm3, 649) THEN <<"Unhealthy", "#FF0000", 3>>
    ELSE IF FLeInt(no2_ugm3, 1250) THEN <<"Very Unhealthy", "#8F3F97", 4>>
    ELSE <<"Hazardous", "#7E0023", 5>>

\* the chain with its first two branches in the other order
calculate_aqi_no2_reordered(no2_ugm3) ==
    IF FLeInt(no2_ugm3, 100) THEN <<"Moderate", "#FFFF00", 1>>
    ELSE IF FLeInt(no2_ugm3, 53) THEN <<"Good", "#00E400", 0>>
    ELSE IF FLeInt(no2_ugm3, 360)
         THEN <<"Unhealthy for Sensitive Groups", "#FF7E00", 2>>
    ELSE IF FLeInt(no2_ugm3, 649) THEN <<"Unhealthy", "#FF0000", 3>>
    ELSE IF FLeInt(no2_ugm3, 1249) THEN <<"Very Unhealthy", "#8F3F97", 4>>
    ELSE <<"Hazardous", "#7E0023", 5>>

\* the chain with the levels of two branches exchanged
calculate_aqi_no2_levels(no2_ugm3) ==
    IF FLeInt(no2_ugm3, 53) THEN <<"Good", "#00E400", 0>>
    ELSE IF FLeInt(no2_ugm3, 100) THEN <<"Moderate", "#FFFF00", 1>>
    ELSE IF FLeInt(no2_ugm3, 360)
         THEN <<"Unhealthy for Sensitive Groups", "#FF7E00", 2>>
    ELSE IF FLeInt(no2_ugm3, 649) THEN <<"Unhealthy", "#FF0000", 4>>
    ELSE IF FLeInt(no2_ugm3, 1249) THEN <<"Very Unhealthy", "#8F3F97", 3>>
    ELSE <<"Hazardous", "#7E0023", 5>>

\* the if/elif chain; a NaN fails every comparison and reaches the else branch
calculate_aqi_no2(no2_ugm3) ==
    IF FLeInt(no2_ugm3, 53) THEN <<"Good", "#00E400", 0>>
    ELSE IF FLeInt(no2_ugm3, 100) THEN <<"Moderate", "#FFFF00", 1>>
    ELSE IF FLeInt(no2_ugm3, 360)
         THEN <<"Unhealthy for Sensitive Groups", "#FF7E00", 2>>
    ELSE IF FLeInt(no2_ugm3, 649) THEN <<"Unhealthy", "#FF0000", 3>>
    ELSE IF FLeInt(no2_ugm3, 1249) THEN <<"Very Unhealthy", "#8F3F97", 4>>
    ELSE <<"Hazardous", "#7E0023", 5>>

\* the map legend
aqi_levels ==
    << <<"Good", "#00E400">>,
       <<"Moderate", "#FFFF00">>,
       <<"Unhealthy for Sensitive Groups", "#FF7E00">>,
       <<"Unhealthy", "#FF0000">>,
       <<"Very Unhealthy", "#8F3F97">>,
       <<"Hazardous", "#7E0023">> >>

\* the table holding the readings of the earlier scripts' no2 column
\* (0.07, 0.05, ...) in place of column densities
tempo_data_original_unscaled ==
    << [city |-> "Washington DC", no2_molm2 |-> Dec(7, 2)],
       [city |-> "Los Angeles",   no2_molm2 |-> Dec(5, 2)],
       [city |-> "New York",      no2_molm2 |-> Dec(8, 2)],
       [city |-> "Chicago",       no2_molm2 |-> Dec(4, 2)],
       [city |-> "Dallas",        no2_molm2 |-> Dec(3, 2)],
       [city |-> "San Francisco", no2_molm2 |-> Dec(9, 2)],
       [city |-> "Atlanta",       no2_molm2 |-> Dec(6, 2)],
       [city |-> "Phoenix",       no2_molm2 |-> Dec(2, 2)] >>

\* the sample table: city and the no2_molm2 literal as the parser reads it
tempo_data_original ==
    << [city |-> "Washington DC", no2_molm2 |-> Dec(7, 5)],
       [city |-> "Los Angeles",   no2_molm2 |-> Dec(5, 5)],
       [city |-> "New York",      no2_molm2 |-> Dec(8, 5)],
       [city |-> "Chicago",       no2_molm2 |-> Dec(4, 5)],
       [city |-> "Dallas",        no2_molm2 |-> Dec(3, 5)],
       [city |-> "San Francisco", no2_molm2 |-> Dec(9, 5)],
       [city |-> "Atlanta",       no2_molm2 |-> Dec(6, 5)],
       [city |-> "Phoenix",       no2_molm2 |-> Dec(2, 5)] >>

(***************************************************************************)
(* Inputs.  Besides the table's literals the converter is called on the    *)
(* binary64 next above each of them, on a grid of multiples of             *)
(* MeasStep/1000 mol/m2 that spans all six categories, on the smallest and *)
(* the largest positive binary64, and on the values a sensor fault can     *)
(* deliver (negative, NaN, infinite).  Concentrations given to             *)
(* the classifier directly are a grid of multiples of ConcStep, the five   *)
(* thresholds and their binary64 neighbours, and the faulty values.        *)
(***************************************************************************)
MaxMeas == 14
MeasStep == 2
MaxConc == 13
ConcStep == 100

Thresholds == <<53, 100, 360, 649, 1249>>

TableMeasurements == {tempo_data_original[i].no2_molm2 : i \in DOMAIN tempo_data_original}
MinPositive == NextUp(FZero(0))
MaxFinite == NextDown(Pack(0, BShl(<<1>>, Precision), MaxTop - Precision - 1))

ValidMeasurements ==
    {NextUp(m) : m \in TableMeasurements}
    \cup {Dec(MeasStep * d, 3) : d \in 0..MaxMeas}
    \cup {MinPositive, MaxFinite}

InvalidMeasurements ==
    {FFromInt(0 - 1), FNeg(Dec(7, 5)), FNeg(Dec(5, 5)), FNaN, FInf(0), FInf(1)}

Measurements == ValidMeasurements \cup InvalidMeasurements

ValidConcentrations ==
    {FFromInt(ConcStep * n) : n \in 0..MaxConc}
    \cup {FFromInt(Thresholds[i]) : i \in DOMAIN Thresholds}
    \cup {NextUp(FFromInt(Thresholds[i])) : i \in DOMAIN Thresholds}
    \cup {NextDown(FFromInt(Thresholds[i])) : i \in DOMAIN Thresholds}

InvalidConcentrations == {FFromInt(0 - 46000), FNaN, FInf(0), FInf(1)}

Concentrations == ValidConcentrations \cup InvalidConcentrations

vars == <<row, prev, threads, run>>

\* Python's None, in the shape of the value it stands in for
NoFloat == [k |-> "None", s |-> 0, m |-> <<>>, e |-> 0]
NoAqi == <<"None", "None", 0 - 1>>
NoExc == "None"
NoRow == [no2_molm2 |-> NoFloat, no2_ugm3 |-> NoFloat, aqi |-> NoAqi, exc |-> NoExc]

\* the threads of the process and a thread that is running no call
NumThreads == 2
Threads == 1..NumThreads
NoFrame ==
    [fn |-> "None", pc |-> "idle", arg |-> NoFloat,
     BOUNDARY_LAYER_HEIGHT |-> 0, NO2_MOLECULAR_WEIGHT |-> 0,
     acc |-> NoFloat, ret |-> NoFloat, ret_aqi |-> NoAqi, interleaved |-> FALSE]

\* Python's None for an optional value v, held as <<>> or <<v>>
None == <<>>
Some(v) == <<v>>

\* no run of a script has started: no flags read, no column, no list entry,
\* nothing drawn
NoRun ==
    [variant |-> "None", pc |-> "idle",
     use_waqi |-> FALSE, use_weather |-> FALSE,
     table |-> <<>>, columns |-> {},
     no2_ugm3 |-> <<>>, aqi |-> <<>>, unhealthy |-> None,
     ground_data_list |-> <<>>, ground_aqi_list |-> <<>>, ground_stations |-> <<>>,
     weather_info |-> <<>>, temperatures |-> <<>>, humidities |-> <<>>,
     pressures |-> <<>>,
     waqi_replies |-> <<>>, weather_replies |-> <<>>,
     markers |-> <<>>, alerts |-> <<>>, alert_count |-> 0,
     recommendations |-> <<>>, summary |-> "None", expander |-> <<>>,
     exported |-> {}, footer |-> FALSE, error |-> "None", key |-> "None"]

Init ==
    /\ row = NoRow
    /\ prev = NoRow
    /\ threads = [t \in Threads |-> NoFrame]
    /\ run = NoRun

\* convert_tempo_to_ugm3 called on a measurement; the function has no raise
\* statement and float / and * by a non-zero constant raise nothing
Convert(m) ==
    /\ row' = [no2_molm2 |-> m,
               no2_ugm3  |-> convert_tempo_to_ugm3(m),
               aqi       |-> NoAqi,
               exc       |-> NoExc]
    /\ UNCHANGED <<prev, threads, run>>

\* tempo_data_original["no2_molm2"].apply(convert_tempo_to_ugm3), element i
ConvertRow(i) ==
    /\ row' = [no2_molm2 |-> tempo_data_original[i].no2_molm2,
               no2_ugm3  |-> convert_tempo_to_ugm3(tempo_data_original[i].no2_molm2),
               aqi       |-> NoAqi,
               exc       |-> NoExc]
    /\ UNCHANGED <<prev, threads, run>>

\* tempo_data_original["no2_ugm3"].apply(lambda x: pd.Series(calculate_aqi_no2(x))),
\* one element
Classify ==
    /\ row.no2_ugm3 # NoFloat
    /\ row.aqi = NoAqi
    /\ row' = [row EXCEPT !.aqi = calculate_aqi_no2(row.no2_ugm3)]
    /\ UNCHANGED <<prev, threads, run>>

\* calculate_aqi_no2 called on a concentration that did not come from the converter
ClassifyDirect(c) ==
    /\ row' = [no2_molm2 |-> NoFloat,
               no2_ugm3  |-> c,
               aqi       |-> calculate_aqi_no2(c),
               exc       |-> NoExc]
    /\ UNCHANGED <<prev, threads, run>>

\* the caller keeps the finished row and goes on to other rows
Keep ==
    /\ row.aqi # NoAqi
    /\ prev' = row
    /\ row' = NoRow
    /\ UNCHANGED <<threads, run>>

Next ==
    \/ \E i \in DOMAIN tempo_data_original : ConvertRow(i)
    \/ \E m \in Measurements : Convert(m)
    \/ Classify
    \/ \E c \in Concentrations : ClassifyDirect(c)
    \/ Keep

Spec == Init /\ [][Next]_vars

(***************************************************************************)
(* The two functions called from several threads of one process.  A call   *)
(* runs in its own frame; the interpreter switches threads between the     *)
(* steps of a call.                                                        *)
(***************************************************************************)
ThreadMeasurements == {Dec(7, 5), Dec(5, 5), Dec(9, 3)}
ThreadConcentrations == {FFromInt(53), FFromInt(400), FFromInt(1300)}

\* the return statements of calculate_aqi_no2, in order
aqi_returns ==
    << <<"Good", "#00E400", 0>>,
       <<"Moderate", "#FFFF00", 1>>,
       <<"Unhealthy for Sensitive Groups", "#FF7E00", 2>>,
       <<"Unhealthy", "#FF0000", 3>>,
       <<"Very Unhealthy", "#8F3F97", 4>>,
       <<"Hazardous", "#7E0023", 5>> >>

\* a frame shared by all calls, as a function keeping its locals in static
\* storage would have
Frame_static(t) == threads[1]

\* the frame of the call running in thread t: parameters and locals of a
\* Python call live in the frame of that call
Frame(t) == threads[t]

InCall(f) == f.pc \notin {"idle", "done"}

\* thread t takes a step that leaves its frame f; a call in progress in
\* another thread has been interleaved with it
Switch(t, f) ==
    threads' = [u \in Threads |->
                  IF u = t THEN f
                  ELSE IF InCall(threads[u])
                       THEN [threads[u] EXCEPT !.interleaved = TRUE]
                       ELSE threads[u]]

\* thread t calls fn(arg): the argument is bound in a new frame
Call(t, fn, arg) ==
    /\ ~InCall(threads[t])
    /\ Switch(t, [NoFrame EXCEPT !.fn = fn, !.arg = arg,
                                 !.pc = IF fn = "convert_tempo_to_ugm3"
                                        THEN "line83" ELSE "cmp1"])
    /\ UNCHANGED <<row, prev, run>>

\* one step of convert_tempo_to_ugm3 in thread t: the two local constants,
\* then the division and the two multiplications of line 88, then the return
ConvertStep(t) ==
    /\ threads[t].fn = "convert_tempo_to_ugm3"
    /\ InCall(threads[t])
    /\ LET f == threads[t]
           pc == f.pc
       IN  Switch(t,
             IF pc = "line83"
             THEN [f EXCEPT !.BOUNDARY_LAYER_HEIGHT = BOUNDARY_LAYER_HEIGHT,
                            !.pc = "line84"]
             ELSE IF pc = "line84"
             THEN [f EXCEPT !.NO2_MOLECULAR_WEIGHT = NO2_MOLECULAR_WEIGHT,
                            !.pc = "div"]
             ELSE IF pc = "div"
             THEN [f EXCEPT !.acc = FDivInt(Frame(t).arg,
                                            Frame(t).BOUNDARY_LAYER_HEIGHT),
                            !.pc = "mul"]
             ELSE IF pc = "mul"
             THEN [f EXCEPT !.acc = FMulInt(Frame(t).acc,
                                            Frame(t).NO2_MOLECULAR_WEIGHT),
                            !.pc = "mul1e6"]
             ELSE IF pc = "mul1e6"
             THEN [f EXCEPT !.acc = FMulInt(Frame(t).acc, 10 ^ 6),
                            !.pc = "return"]
             ELSE [f EXCEPT !.ret = Frame(t).acc, !.pc = "done"])
    /\ UNCHANGED <<row, prev, run>>

CmpIndex(pc) ==
    CASE pc = "cmp1" -> 1 [] pc = "cmp2" -> 2 [] pc = "cmp3" -> 3
      [] pc = "cmp4" -> 4 [] pc = "cmp5" -> 5
CmpLabel(i) == <<"cmp1", "cmp2", "cmp3", "cmp4", "cmp5", "else">>[i]

\* one step of calculate_aqi_no2 in thread t: one comparison of the chain and
\* its return, or the final else
ClassifyStep(t) ==
    /\ threads[t].fn = "calculate_aqi_no2"
    /\ InCall(threads[t])
    /\ LET f == threads[t]
       IN  Switch(t,
             IF f.pc = "else"
             THEN [f EXCEPT !.ret_aqi = aqi_returns[6], !.pc = "done"]
             ELSE LET i == CmpIndex(f.pc)
                  IN  IF FLeInt(Frame(t).arg, Thresholds[i])
                      THEN [f EXCEPT !.ret_aqi = aqi_returns[i], !.pc = "done"]
                      ELSE [f EXCEPT !.pc = CmpLabel(i + 1)])
    /\ UNCHANGED <<row, prev, run>>

NextThreads ==
    \/ \E t \in Threads, m \in ThreadMeasurements :
          Call(t, "convert_tempo_to_ugm3", m)
    \/ \E t \in Threads, c \in ThreadConcentrations :
          Call(t, "calculate_aqi_no2", c)
    \/ \E t \in Threads : ConvertStep(t)
    \/ \E t \in Threads : ClassifyStep(t)

SpecThreads == Init /\ [][NextThreads]_vars

(***************************************************************************)
(* One run of the dashboard, src/app.py from the sidebar to the footer.    *)
(* Streamlit runs the script from the top on every interaction; a run ends *)
(* at the footer or at the first uncaught exception.  The table is an      *)
(* input here: rows of the sample table's shape with measurements of every *)
(* alert tier.  The fetch functions are cached per argument for an hour;   *)
(* a cached reply is one of the replies the service can give, so the       *)
(* replies are drawn afresh for every city.                                *)
(***************************************************************************)
MaxRows == 2

\* measurements converting to 3.22, 92, 138, 368 and 1288 ug/m3
RunMeasurements == {Dec(7, 5), Dec(2, 3), Dec(3, 3), Dec(8, 3), Dec(28, 3)}

\* tables of one to MaxRows rows, named after the sample table's cities
Tables ==
    UNION {[1..n -> RunMeasurements] : n \in 1..MaxRows}
CityOf(i) == tempo_data_original[i].city

\* the earlier scripts' table has a no2 column (0.07, ...) that their fetch
\* loops never read: one value stands for it
VariantTables ==
    UNION {[1..n -> {Dec(7, 2)}] : n \in 1..MaxRows}
N(r) == Len(r.table)

\* what requests.get(...) and r.json() can yield for a WAQI feed: a network
\* error, a body that is not JSON, a JSON error status, or an "ok" feed with
\* or without an iaqi.no2 reading
WaqiReplies ==
    { [kind |-> "timeout",  status |-> "None",  no2 |-> None, aqi |-> None,
       name |-> None],
      [kind |-> "not_json", status |-> "None",  no2 |-> None, aqi |-> None,
       name |-> None],
      [kind |-> "json",     status |-> "error", no2 |-> None, aqi |-> None,
       name |-> None],
      [kind |-> "json",     status |-> "ok",    no2 |-> None, aqi |-> Some(42),
       name |-> Some("Station")],
      [kind |-> "json",     status |-> "ok",    no2 |-> Some(10), aqi |-> Some(42),
       name |-> Some("Station")] }

\* what the OpenWeatherMap call can yield: a network error, JSON without
\* 'main' (city not found), or a full report
WeatherReplies ==
    { [kind |-> "timeout", main |-> None, description |-> "None"],
      [kind |-> "json",    main |-> None, description |-> "None"],
      [kind |-> "json",
       main |-> Some([temp |-> 20, humidity |-> 40, pressure |-> 1013]),
       description |-> "clear sky"] }

\* the services answer for the place asked about: the feed for the i-th
\* city's coordinates carries that place's reading, the report for the i-th
\* city's name that city's temperature
WaqiFeed(reply, i) ==
    IF reply.no2 = None THEN reply
    ELSE [reply EXCEPT !.no2 = Some(reply.no2[1] + i)]
WeatherReport(reply, i) ==
    IF reply.main = None THEN reply
    ELSE [reply EXCEPT !.main = Some([reply.main[1] EXCEPT !.temp = @ + i])]

\* a call's outcome: the exception that left it, or the value returned
Returns(v) == [exc |-> "None", ret |-> v]
Raises(name, v) == [exc |-> name, ret |-> v]

\* the function without its try/except: the exception leaves the call
fetch_waqi_data_uncaught(reply) ==
    IF reply.kind = "timeout" THEN Raises("Timeout", <<None, None, None>>)
    ELSE IF reply.kind = "not_json"
         THEN Raises("JSONDecodeError", <<None, None, None>>)
    ELSE IF reply.status = "ok"
         THEN Returns(<<reply.no2, reply.aqi, Some([name |-> reply.name])>>)
    ELSE Returns(<<None, None, None>>)

\* fetch_waqi_data: (no2_val, aqi, data["data"]) for an "ok" feed, three
\* Nones for another status and for every exception inside the try
fetch_waqi_data(reply) ==
    IF reply.kind # "json" THEN Returns(<<None, None, None>>)
    ELSE IF reply.status = "ok"
         THEN Returns(<<reply.no2, reply.aqi, Some([name |-> reply.name])>>)
    ELSE Returns(<<None, None, None>>)

\* fetch_weather_data: (temp, description, humidity, pressure), and
\* (None, "N/A", None, None) for every exception inside the try, a missing
\* key included
fetch_weather_data(reply) ==
    IF reply.kind # "json" \/ reply.main = None
    THEN Returns(<<None, "N/A", None, None>>)
    ELSE Returns(<<Some(reply.main[1].temp), reply.description,
                   Some(reply.main[1].humidity), Some(reply.main[1].pressure)>>)

WaqiFailed(reply) == reply.kind # "json" \/ reply.status # "ok"
WeatherFailed(reply) == reply.kind # "json" \/ reply.main = None

\* an uncaught exception ends the run
Crash(r, exc, key) == [r EXCEPT !.pc = "crashed", !.error = exc, !.key = key]

\* the first of the columns cols that the table does not have, "None" when
\* it has them all: row[c] and df[c] raise KeyError for a missing column
FirstMissing(r, cols) ==
    LET miss == {i \in DOMAIN cols : cols[i] \notin r.columns}
    IN  IF miss = {} THEN "None"
        ELSE cols[CHOOSE i \in miss : \A j \in miss : i <= j]

\* the script starts: the sidebar checkboxes are read and the table is built.
\* use_tempo is assigned at line 161 and read nowhere, so it is not kept.
\* A later run starts from the same empty state, so one run is followed.
Rerun(table, tempo, waqi, weather) ==
    /\ run.pc = "idle"
    /\ tempo \in BOOLEAN
    /\ run' = [NoRun EXCEPT !.variant = "app", !.pc = "line195",
                            !.use_waqi = waqi, !.use_weather = weather,
                            !.table = table,
                            !.columns = {"lat", "lon", "no2_molm2", "city"}]
    /\ UNCHANGED <<row, prev, threads>>

\* tempo_data_original["no2_ugm3"] = ...apply(convert_tempo_to_ugm3)
ApplyConvert ==
    /\ run.variant = "app" /\ run.pc = "line195"
    /\ run' = [run EXCEPT
                 !.no2_ugm3 = [i \in 1..N(run) |-> convert_tempo_to_ugm3(run.table[i])],
                 !.columns = @ \cup {"no2_ugm3"},
                 !.pc = "line198"]
    /\ UNCHANGED <<row, prev, threads>>

\* the three aqi columns from calculate_aqi_no2, then the metrics row with
\* "Areas Needing Attention" = rows with aqi_level > 1
ApplyClassify ==
    /\ run.variant = "app" /\ run.pc = "line198"
    /\ LET aqi == [i \in 1..N(run) |-> calculate_aqi_no2(run.no2_ugm3[i])]
       IN  run' = [run EXCEPT
                     !.aqi = aqi,
                     !.columns = @ \cup {"aqi_category", "aqi_color", "aqi_level"},
                     !.unhealthy = Some(Cardinality({i \in 1..N(run) : aqi[i][3] > 1})),
                     !.pc = "ground"]
    /\ UNCHANGED <<row, prev, threads>>

\* the body of the ground loop after the fetch, lines 249-260: one entry to
\* each of the three lists on either branch
ground_loop_body(r, city, fetched) ==
    IF fetched[1] # None
    THEN [r EXCEPT !.ground_data_list = Append(@, fetched[1]),
                   !.ground_aqi_list = Append(@, fetched[2]),
                   !.ground_stations =
                       Append(@, IF fetched[3] # None /\ fetched[3][1].name # None
                                 THEN fetched[3][1].name
                                 ELSE Some(city))]
    ELSE [r EXCEPT !.ground_data_list = Append(@, None),
                   !.ground_aqi_list = Append(@, None),
                   !.ground_stations = Append(@, Some(city))]

\* if use_waqi is off the section is skipped and no ground column is made
GroundSkip ==
    /\ run.variant = "app" /\ run.pc = "ground" /\ ~run.use_waqi
    /\ run' = [run EXCEPT !.pc = "weather"]
    /\ UNCHANGED <<row, prev, threads>>

\* one iteration of the ground loop: fetch for the next city, then the body
GroundFetch(reply) ==
    /\ run.variant = "app" /\ run.pc = "ground" /\ run.use_waqi
    /\ Len(run.waqi_replies) < N(run)
    /\ LET i == Len(run.waqi_replies) + 1
           out == fetch_waqi_data(WaqiFeed(reply, i))
           city == CityOf(i)
           r == [run EXCEPT !.waqi_replies =
                     Append(@, IF WaqiFailed(reply) THEN "failed" ELSE "ok")]
       IN  run' = IF out.exc # "None" THEN Crash(r, out.exc, "None")
                  ELSE ground_loop_body(r, city, out.ret)
    /\ UNCHANGED <<row, prev, threads>>

\* after the loop the three lists become the ground columns; pandas raises
\* ValueError for a list that is not as long as the table
GroundAssign ==
    /\ run.variant = "app" /\ run.pc = "ground" /\ run.use_waqi
    /\ Len(run.waqi_replies) = N(run)
    /\ run' = IF Len(run.ground_data_list) # N(run)
              THEN Crash(run, "ValueError", "ground_no2")
              ELSE [run EXCEPT
                     !.columns = @ \cup {"ground_no2", "ground_aqi", "ground_station"},
                     !.pc = "weather"]
    /\ UNCHANGED <<row, prev, threads>>

\* the f-string f"{temp}°C, {description}" and the literal "N/A"
WeatherText(temp, description) == [temp |-> temp, text |-> description]
NA == WeatherText(None, "N/A")

\* the body of the weather loop after the fetch, lines 302-311: one entry to
\* each of the four lists on either branch
weather_loop_body(r, fetched) ==
    IF fetched[1] # None
    THEN [r EXCEPT !.weather_info = Append(@, WeatherText(fetched[1], fetched[2])),
                   !.temperatures = Append(@, fetched[1]),
                   !.humidities = Append(@, fetched[3]),
                   !.pressures = Append(@, fetched[4])]
    ELSE [r EXCEPT !.weather_info = Append(@, NA),
                   !.temperatures = Append(@, None),
                   !.humidities = Append(@, None),
                   !.pressures = Append(@, None)]

\* if use_weather is off the section is skipped and no weather column is made
WeatherSkip ==
    /\ run.variant = "app" /\ run.pc = "weather" /\ ~run.use_weather
    /\ run' = [run EXCEPT !.pc = "map"]
    /\ UNCHANGED <<row, prev, threads>>

\* one iteration of the weather loop
WeatherFetch(reply) ==
    /\ run.variant = "app" /\ run.pc = "weather" /\ run.use_weather
    /\ Len(run.weather_replies) < N(run)
    /\ LET out == fetch_weather_data(WeatherReport(reply, Len(run.weather_replies) + 1))
           r == [run EXCEPT !.weather_replies =
                     Append(@, IF WeatherFailed(reply) THEN "failed" ELSE "ok")]
       IN  run' = IF out.exc # "None" THEN Crash(r, out.exc, "None")
                  ELSE weather_loop_body(r, out.ret)
    /\ UNCHANGED <<row, prev, threads>>

\* after the loop the four lists become the weather columns
WeatherAssign ==
    /\ run.variant = "app" /\ run.pc = "weather" /\ run.use_weather
    /\ Len(run.weather_replies) = N(run)
    /\ run' = IF Len(run.weather_info) # N(run)
              THEN Crash(run, "ValueError", "weather")
              ELSE [run EXCEPT
                     !.columns = @ \cup {"weather", "temperature", "humidity",
                                         "pressure"},
                     !.pc = "map"]
    /\ UNCHANGED <<row, prev, threads>>

\* a marker coloured by the first version's rule, red above a fixed reading
MarkerColor_fixed(r, i) ==
    IF FLeInt(r.no2_ugm3[i], 100) THEN "#00E400" ELSE "#FF0000"

\* color = row['aqi_color']
MarkerColor(r, i) == r.aqi[i][2]

\* one iteration of the marker loop: the colour, then the popup, which reads
\* the row's city, no2_ugm3, ground_no2, aqi_category and weather in turn
MapMarker ==
    /\ run.variant = "app" /\ run.pc = "map"
    /\ LET i == Len(run.markers) + 1
           miss == FirstMissing(run, <<"aqi_color", "city", "no2_ugm3", "ground_no2",
                                       "aqi_category", "weather", "lat", "lon">>)
       IN  run' = IF miss # "None" THEN Crash(run, "KeyError", miss)
                  ELSE [run EXCEPT
                         !.markers = Append(@, [city |-> CityOf(i),
                                                color |-> MarkerColor(run, i)]),
                         !.pc = IF i = N(run) THEN "tabs" ELSE "map"]
    /\ UNCHANGED <<row, prev, threads>>

\* the four analytics tabs: the comparison reads ground_no2 only behind
\* use_waqi, the weather tab reads temperature unguarded
Tabs ==
    /\ run.variant = "app" /\ run.pc = "tabs"
    /\ LET miss == FirstMissing(run,
                       <<"city", "no2_ugm3">>
                       \o (IF run.use_waqi THEN <<"ground_no2">> ELSE <<>>)
                       \o <<"temperature">>)
       IN  run' = IF miss # "None" THEN Crash(run, "KeyError", miss)
                  ELSE [run EXCEPT !.pc = "alerts"]
    /\ UNCHANGED <<row, prev, threads>>

\* the tier rule with the error box only above level 3
AlertBox_above3(aqi_level) ==
    IF aqi_level > 3 THEN "error"
    ELSE IF aqi_level = 2 THEN "warning"
    ELSE "success"

\* the if / elif / else of the alert loop: which box a level gets
AlertBox(aqi_level) ==
    IF aqi_level >= 3 THEN "error"
    ELSE IF aqi_level = 2 THEN "warning"
    ELSE "success"

Recommendation(city) == [text |-> "Reduce industrial activity in", city |-> city]

\* a loop body that also counts the caution boxes
alert_loop_body_counts_caution(r, i) ==
    LET box == AlertBox(r.aqi[i][3])
        shown == [r EXCEPT !.alerts = Append(@, [city |-> CityOf(i), box |-> box,
                                                 category |-> r.aqi[i][1]])]
    IN  IF box = "error"
        THEN [shown EXCEPT !.alert_count = @ + 1,
                           !.recommendations = Append(@, Recommendation(CityOf(i)))]
        ELSE IF box = "warning" THEN [shown EXCEPT !.alert_count = @ + 1]
        ELSE shown

\* the body of the alert loop, lines 553-584: one box for the row; the error
\* branch also counts the alert and adds the city's recommendation
alert_loop_body(r, i) ==
    LET box == AlertBox(r.aqi[i][3])
        shown == [r EXCEPT !.alerts = Append(@, [city |-> CityOf(i), box |-> box,
                                                 category |-> r.aqi[i][1]])]
    IN  IF box = "error"
        THEN [shown EXCEPT !.alert_count = @ + 1,
                           !.recommendations = Append(@, Recommendation(CityOf(i)))]
        ELSE shown

\* one iteration of the alert loop; the success box reads row['weather']
Alert ==
    /\ run.variant = "app" /\ run.pc = "alerts"
    /\ LET i == Len(run.alerts) + 1
           miss == FirstMissing(run,
                       <<"no2_ugm3", "aqi_level", "city", "aqi_category">>
                       \o (IF AlertBox(run.aqi[i][3]) = "success"
                           THEN <<"weather">> ELSE <<>>))
       IN  run' = IF miss # "None" THEN Crash(run, "KeyError", miss)
                  ELSE [alert_loop_body(run, i) EXCEPT
                         !.pc = IF i = N(run) THEN "summary" ELSE "alerts"]
    /\ UNCHANGED <<row, prev, threads>>

GenericActions ==
    << [text |-> "Increase public transportation usage", city |-> "None"],
       [text |-> "Implement temporary traffic restrictions if needed", city |-> "None"],
       [text |-> "Monitor industrial emissions in affected areas", city |-> "None"] >>

\* the summary: the "Excellent!" success message when alert_count is 0, else
\* the warning with the count and the expander listing the recommendations
Summary ==
    /\ run.variant = "app" /\ run.pc = "summary"
    /\ run' = IF run.alert_count = 0
              THEN [run EXCEPT !.summary = "Excellent", !.pc = "export"]
              ELSE [run EXCEPT !.summary = "warning",
                               !.expander = run.recommendations \o GenericActions,
                               !.pc = "export"]
    /\ UNCHANGED <<row, prev, threads>>

ExportColumns ==
    <<"city", "lat", "lon", "no2_molm2", "no2_ugm3", "aqi_category",
      "ground_no2", "ground_aqi", "temperature", "humidity">>

\* export_data[[...]] selects the export columns, then the CSV is offered
Export ==
    /\ run.variant = "app" /\ run.pc = "export"
    /\ LET miss == FirstMissing(run, ExportColumns)
       IN  run' = IF miss # "None" THEN Crash(run, "KeyError", miss)
                  ELSE [run EXCEPT !.exported = {ExportColumns[i] : i \in DOMAIN ExportColumns},
                                   !.pc = "footer"]
    /\ UNCHANGED <<row, prev, threads>>

Footer ==
    /\ run.variant = "app" /\ run.pc = "footer"
    /\ run' = [run EXCEPT !.footer = TRUE, !.pc = "done"]
    /\ UNCHANGED <<row, prev, threads>>

(***************************************************************************)
(* The fetch loops of the two earlier versions of the dashboard,           *)
(* src/Documents/hackathon/app.py (WAQI) and src/Documents/hackathon/      *)
(* test.py (OpenAQ).  They fetch inline, with the try/except in the loop,  *)
(* and fill ground_data_list, weather_info and temperatures.  The rest of  *)
(* these scripts is not followed.                                         *)
(***************************************************************************)
\* what the OpenAQ call can yield: a network error, an HTTP error status, a
\* 200 whose body is not JSON, an empty result list, or one measurement
OpenAqReplies ==
    { [kind |-> "timeout",  status_code |-> 0,   results |-> <<>>],
      [kind |-> "http",     status_code |-> 500, results |-> <<>>],
      [kind |-> "not_json", status_code |-> 200, results |-> <<>>],
      [kind |-> "http",     status_code |-> 200, results |-> <<>>],
      [kind |-> "http",     status_code |-> 200, results |-> <<[value |-> 10]>>] }
OpenAqFeed(reply, i) ==
    IF reply.results = <<>> THEN reply
    ELSE [reply EXCEPT !.results = <<[value |-> reply.results[1].value + i]>>]
OpenAqFailed(reply) == reply.kind # "http" \/ reply.status_code # 200

VariantStart(variant, table) ==
    /\ run.pc = "idle"
    /\ run' = [NoRun EXCEPT !.variant = variant, !.pc = "ground",
                            !.table = table,
                            !.columns = {"lat", "lon", "no2", "city"}]
    /\ UNCHANGED <<row, prev, threads>>

\* a loop body whose except branch appends nothing
hackathon_ground_body_silent(r, reply) ==
    IF reply.kind # "json" THEN r
    ELSE IF reply.status = "ok"
         THEN [r EXCEPT !.ground_data_list = Append(@, reply.no2)]
    ELSE [r EXCEPT !.ground_data_list = Append(@, None)]

\* Documents/hackathon/app.py, the try/except of the ground loop: the reading
\* (or None) of an "ok" feed, None for another status, None in the except
hackathon_ground_body(r, reply) ==
    IF reply.kind # "json" THEN [r EXCEPT !.ground_data_list = Append(@, None)]
    ELSE IF reply.status = "ok"
         THEN [r EXCEPT !.ground_data_list = Append(@, reply.no2)]
    ELSE [r EXCEPT !.ground_data_list = Append(@, None)]

HackathonGround(reply) ==
    /\ run.variant = "hackathon_app" /\ run.pc = "ground"
    /\ Len(run.waqi_replies) < N(run)
    /\ LET i == Len(run.waqi_replies) + 1
           r == [run EXCEPT !.waqi_replies =
                     Append(@, IF WaqiFailed(reply) THEN "failed" ELSE "ok")]
       IN  run' = hackathon_ground_body(r, WaqiFeed(reply, i))
    /\ UNCHANGED <<row, prev, threads>>

\* Documents/hackathon/test.py, the try/except of the ground loop: the first
\* result's value for a 200 with results, None for an empty list, for
\* another status code and in the except
test_ground_body(r, reply) ==
    IF reply.kind # "http" THEN [r EXCEPT !.ground_data_list = Append(@, None)]
    ELSE IF reply.status_code = 200
         THEN IF reply.results # <<>>
              THEN [r EXCEPT !.ground_data_list = Append(@, Some(reply.results[1].value))]
              ELSE [r EXCEPT !.ground_data_list = Append(@, None)]
    ELSE [r EXCEPT !.ground_data_list = Append(@, None)]

TestGround(reply) ==
    /\ run.variant = "hackathon_test" /\ run.pc = "ground"
    /\ Len(run.waqi_replies) < N(run)
    /\ LET i == Len(run.waqi_replies) + 1
           r == [run EXCEPT !.waqi_replies =
                     Append(@, IF OpenAqFailed(reply) THEN "failed" ELSE "ok")]
       IN  run' = test_ground_body(r, OpenAqFeed(reply, i))
    /\ UNCHANGED <<row, prev, threads>>

\* tempo_data['ground_no2'] = ground_data_list
VariantGroundAssign ==
    /\ run.variant \in {"hackathon_app", "hackathon_test"} /\ run.pc = "ground"
    /\ Len(run.waqi_replies) = N(run)
    /\ run' = IF Len(run.ground_data_list) # N(run)
              THEN Crash(run, "ValueError", "ground_no2")
              ELSE [run EXCEPT !.columns = @ \cup {"ground_no2"}, !.pc = "weather"]
    /\ UNCHANGED <<row, prev, threads>>

\* the try/except of the weather loop, the same in both scripts: both
\* appends follow the last statement that can raise
variant_weather_body(r, reply) ==
    IF reply.kind # "json" \/ reply.main = None
    THEN [r EXCEPT !.weather_info = Append(@, NA),
                   !.temperatures = Append(@, None)]
    ELSE [r EXCEPT !.weather_info = Append(@, WeatherText(Some(reply.main[1].temp),
                                                          reply.description)),
                   !.temperatures = Append(@, Some(reply.main[1].temp))]

VariantWeather(reply) ==
    /\ run.variant \in {"hackathon_app", "hackathon_test"} /\ run.pc = "weather"
    /\ Len(run.weather_replies) < N(run)
    /\ LET i == Len(run.weather_replies) + 1
           r == [run EXCEPT !.weather_replies =
                     Append(@, IF WeatherFailed(reply) THEN "failed" ELSE "ok")]
       IN  run' = variant_weather_body(r, WeatherReport(reply, i))
    /\ UNCHANGED <<row, prev, threads>>

\* tempo_data['weather'] = weather_info; tempo_data['temperature'] = temperatures
VariantWeatherAssign ==
    /\ run.variant \in {"hackathon_app", "hackathon_test"} /\ run.pc = "weather"
    /\ Len(run.weather_replies) = N(run)
    /\ run' = IF Len(run.weather_info) # N(run)
              THEN Crash(run, "ValueError", "weather")
              ELSE [run EXCEPT !.columns = @ \cup {"weather", "temperature"},
                               !.pc = "done"]
    /\ UNCHANGED <<row, prev, threads>>

NextRun ==
    \/ \E table \in Tables, tempo, waqi, weather \in BOOLEAN :
          Rerun(table, tempo, waqi, weather)
    \/ ApplyConvert
    \/ ApplyClassify
    \/ GroundSkip
    \/ \E reply \in WaqiReplies : GroundFetch(reply)
    \/ GroundAssign
    \/ WeatherSkip
    \/ \E reply \in WeatherReplies : WeatherFetch(reply)
    \/ WeatherAssign
    \/ MapMarker
    \/ Tabs
    \/ Alert
    \/ Summary
    \/ Export
    \/ Footer
    \/ \E variant \in {"hackathon_app", "hackathon_test"}, table \in VariantTables :
          VariantStart(variant, table)
    \/ \E reply \in WaqiReplies : HackathonGround(reply)
    \/ \E reply \in OpenAqReplies : TestGround(reply)
    \/ VariantGroundAssign
    \/ \E reply \in WeatherReplies : VariantWeather(reply)
    \/ VariantWeatherAssign

SpecRun == Init /\ [][NextRun]_vars

(***************************************************************************)
(* A run of src/app.py over the table as the script builds it, the eight   *)
(* sample rows.  Sixteen fetches with every reply free are too many runs   *)
(* to enumerate, so a run has at most MaxShortfalls fetches that give no   *)
(* reading, or starts with an outage in which every fetch fails.           *)
(***************************************************************************)
MaxShortfalls == 4

SampleTable == [i \in DOMAIN tempo_data_original |-> tempo_data_original[i].no2_molm2]

\* entries of the run so far for which the fetch gave no reading
Shortfalls(r) ==
    Cardinality({i \in DOMAIN r.ground_data_list : r.ground_data_list[i] = None})
    + Cardinality({i \in DOMAIN r.temperatures : r.temperatures[i] = None})

\* every fetch of the run so far has failed
Outage(r) ==
    /\ \A i \in DOMAIN r.waqi_replies : r.waqi_replies[i] = "failed"
    /\ \A i \in DOMAIN r.weather_replies : r.weather_replies[i] = "failed"

\* a reply without a reading is taken while the run has shortfalls to spare
\* or is still in the outage it began with
Affordable(noReading, failed) ==
    noReading => \/ Shortfalls(run) < MaxShortfalls
                 \/ failed /\ Outage(run)

NextSample ==
    \/ \E tempo, waqi, weather \in BOOLEAN : Rerun(SampleTable, tempo, waqi, weather)
    \/ ApplyConvert
    \/ ApplyClassify
    \/ GroundSkip
    \/ \E reply \in WaqiReplies :
          /\ Affordable(WaqiFailed(reply) \/ reply.no2 = None, WaqiFailed(reply))
          /\ GroundFetch(reply)
    \/ GroundAssign
    \/ WeatherSkip
    \/ \E reply \in WeatherReplies :
          /\ Affordable(WeatherFailed(reply), WeatherFailed(reply))
          /\ WeatherFetch(reply)
    \/ WeatherAssign
    \/ MapMarker
    \/ Tabs
    \/ Alert
    \/ Summary
    \/ Export
    \/ Footer

SpecSample == Init /\ [][NextSample]_vars

(***************************************************************************)
(* Properties                                                              *)
(***************************************************************************)
Converted(r) == r.no2_molm2 # NoFloat
Classified(r) == r.aqi # NoAqi
NonNegFinite(x) == x.k = "fin" /\ x.s = 0
Category(r) == r.aqi[1]
Color(r) == r.aqi[2]
Level(r) == r.aqi[3]

\* |c - k*m| * 2^p <= k*m, on the exact values of the finite floats c and m
WithinRel(c, m, k, p) ==
    LET X  == BMulSmall(m.m, k)
        lo == IF c.e < m.e THEN c.e ELSE m.e
        Ca == BShl(c.m, c.e - lo)
        Xa == BShl(X, m.e - lo)
    IN  BCmp(BShl(BAbsDiff(Ca, Xa), p), Xa) <= 0

\* m >= 2^-1012, so that m / 1000 is a normal binary64
AtLeastMinScaled(m) == BBitLen(m.m) + m.e > 0 - 1012

\* C1 as stated: for every non-negative finite measurement m the converter
\* returns exactly the float m * 46000.
C1_ExactLinear ==
    (Converted(row) /\ NonNegFinite(row.no2_molm2))
        => FEq(row.no2_ugm3, FMulInt(row.no2_molm2, 46000))

\* C1 amended: for every non-negative finite measurement m the converter
\* returns 0 for m = 0 (no offset) and, for m >= 2^-1012 with a finite
\* result, a value within a relative 2^-51 of the exact product m * 46000.
C1_LinearWithinRounding ==
    (Converted(row) /\ NonNegFinite(row.no2_molm2))
        => /\ IsZero(row.no2_molm2) => IsZero(row.no2_ugm3)
           /\ (AtLeastMinScaled(row.no2_molm2) /\ IsFinite(row.no2_ugm3))
                 => WithinRel(row.no2_ugm3, row.no2_molm2, 46000, 51)

\* Los Angeles, 0.00005 mol/m2: the converter returns 2.3, one unit in the
\* last place below the float 0.00005 * 46000
C1_Witness ==
    /\ Converted(row)
    /\ row.no2_molm2 = Dec(5, 5)
    /\ row.no2_ugm3 = Dec(23, 1)
    /\ row.no2_ugm3 = NextDown(FMulInt(row.no2_molm2, 46000))

\* the six rows of the classification table
AqiTable ==
    << <<"Good", "#00E400", 0>>,
       <<"Moderate", "#FFFF00", 1>>,
       <<"Unhealthy for Sensitive Groups", "#FF7E00", 2>>,
       <<"Unhealthy", "#FF0000", 3>>,
       <<"Very Unhealthy", "#8F3F97", 4>>,
       <<"Hazardous", "#7E0023", 5>> >>

\* the first ascending threshold with c <= bound, 6 when there is none
FirstBound(c) ==
    LET hits == {i \in DOMAIN Thresholds : FLeInt(c, Thresholds[i])}
    IN  IF hits = {} THEN Len(Thresholds) + 1
        ELSE CHOOSE i \in hits : \A j \in hits : i <= j

\* C2: for every non-negative concentration the classifier returns the row of
\* the first ascending threshold with c <= bound, Hazardous above 1249.
C2_FirstThresholdRow ==
    (Classified(row) /\ NonNegFinite(row.no2_ugm3))
        => row.aqi = AqiTable[FirstBound(row.no2_ugm3)]

C2_Witness ==
    /\ Classified(row)
    /\ row.no2_ugm3 = FFromInt(649)
    /\ row.aqi = <<"Unhealthy", "#FF0000", 3>>

\* C3: a concentration equal to threshold i is in the lower category (level
\* i - 1), and one strictly above it, however slightly, and not above the
\* next threshold is in the next category up (level i).
C3_BoundaryInclusive ==
    Classified(row) =>
        \A i \in DOMAIN Thresholds :
            LET t == FFromInt(Thresholds[i])
                c == row.no2_ugm3
            IN  /\ c = t => Level(row) = i - 1 /\ Category(row) = AqiTable[i][1]
                /\ c = NextUp(t) => Level(row) = i
                /\ (/\ FLess(t, c)
                    /\ c.k = "fin"
                    /\ i < Len(Thresholds) => FLeInt(c, Thresholds[i + 1]))
                      => Level(row) = i /\ Category(row) = AqiTable[i + 1][1]

\* the binary64 next above 1249 is Hazardous
C3_Witness ==
    /\ Classified(row)
    /\ row.no2_ugm3 = NextUp(FFromInt(1249))
    /\ Level(row) = 5
    /\ Category(row) = "Hazardous"

\* the range of category i: (Thresholds[i], Thresholds[i+1]], the first from
\* 0 and the last unbounded
InRange(i, c) ==
    /\ i > 0 => ~FLeInt(c, Thresholds[i])
    /\ i < Len(Thresholds) => FLeInt(c, Thresholds[i + 1])

\* C4: every non-negative concentration lies in exactly one of the six ranges
\* and the classifier returns the category of that range.
C4_RangesPartition ==
    (Classified(row) /\ NonNegFinite(row.no2_ugm3))
        => /\ Cardinality({i \in 0..Len(Thresholds) : InRange(i, row.no2_ugm3)}) = 1
           /\ Level(row) \in 0..Len(Thresholds)
           /\ InRange(Level(row), row.no2_ugm3)
           /\ Category(row) = AqiTable[Level(row) + 1][1]

\* just below the first threshold
C4_Witness ==
    /\ Classified(row)
    /\ row.no2_ugm3 = NextDown(FFromInt(53))
    /\ Category(row) = "Good"

\* C5 as stated: for valid measurements m1 < m2 the concentrations are
\* strictly ordered and the levels are ordered.
C5_StrictlyMonotonic ==
    (/\ Converted(prev) /\ Converted(row)
     /\ NonNegFinite(prev.no2_molm2) /\ NonNegFinite(row.no2_molm2)
     /\ FLess(prev.no2_molm2, row.no2_molm2))
        => /\ FLess(prev.no2_ugm3, row.no2_ugm3)
           /\ Classified(row) => Level(prev) <= Level(row)

\* C5 amended: for valid measurements m1 < m2 the concentrations are ordered,
\* convert(m1) <= convert(m2), and the levels are ordered.
C5_Monotonic ==
    (/\ Converted(prev) /\ Converted(row)
     /\ NonNegFinite(prev.no2_molm2) /\ NonNegFinite(row.no2_molm2)
     /\ FLess(prev.no2_molm2, row.no2_molm2))
        => /\ FLeq(prev.no2_ugm3, row.no2_ugm3)
           /\ Classified(row) => Level(prev) <= Level(row)

\* Dallas, 0.00003 mol/m2, and the binary64 next above it convert to the same
\* concentration
C5_Witness ==
    /\ Converted(prev) /\ Converted(row) /\ Classified(row)
    /\ prev.no2_molm2 = Dec(3, 5)
    /\ row.no2_molm2 = NextUp(Dec(3, 5))
    /\ prev.no2_ugm3 = row.no2_ugm3
    /\ Level(prev) = Level(row)

\* the category order of the claim
SeverityOrder ==
    <<"Good", "Moderate", "Unhealthy for Sensitive Groups", "Unhealthy",
      "Very Unhealthy", "Hazardous">>

\* C6: in every result the level is in 0..5 and is the category's position in
\* the severity order, the color is the legend's color of that category, no two
\* legend entries share a category or a color, and the legend's (category,
\* color) pairs are the pairs the classifier returns.
C6_TripleConsistent ==
    /\ Len(aqi_levels) = Len(SeverityOrder)
    /\ \A i, j \in DOMAIN aqi_levels :
           i # j => aqi_levels[i][1] # aqi_levels[j][1]
                    /\ aqi_levels[i][2] # aqi_levels[j][2]
    /\ Classified(row) =>
           /\ Level(row) \in 0..5
           /\ Category(row) = SeverityOrder[Level(row) + 1]
           /\ aqi_levels[Level(row) + 1] = <<Category(row), Color(row)>>

C6_Witness ==
    /\ Classified(row)
    /\ Level(row) = 4
    /\ Category(row) = "Very Unhealthy"
    /\ <<Category(row), Color(row)>> = aqi_levels[5]

C8_ZeroIsGood ==
    (Converted(row) /\ row.no2_molm2 = FFromInt(0))
        => /\ row.no2_ugm3 = FFromInt(0)
           /\ Classified(row) => Category(row) = "Good" /\ Level(row) = 0

C8_Witness ==
    /\ Converted(row) /\ Classified(row)
    /\ row.no2_molm2 = FFromInt(0)
    /\ row.no2_ugm3 = FFromInt(0)
    /\ row.aqi = <<"Good", "#00E400", 0>>

\* C9 as stated: convert(0.00007) is the float 3.22 and classifies as Good,
\* level 0.
C9_Yields322 ==
    (Converted(row) /\ row.no2_molm2 = Dec(7, 5))
        => /\ FEq(row.no2_ugm3, Dec(322, 2))
           /\ Classified(row) => Category(row) = "Good" /\ Level(row) = 0

\* C9 amended: convert(0.00007) is 3.2199999999999998, the binary64 next below
\* 3.22, and classifies as Good, level 0.
C9_YieldsBelow322 ==
    (Converted(row) /\ row.no2_molm2 = Dec(7, 5))
        => /\ row.no2_ugm3 = NextDown(Dec(322, 2))
           /\ Classified(row) => Category(row) = "Good" /\ Level(row) = 0

C9_Witness ==
    /\ Converted(row) /\ Classified(row)
    /\ row.no2_molm2 = tempo_data_original[1].no2_molm2
    /\ FLess(row.no2_ugm3, Dec(322, 2))
    /\ Category(row) = "Good" /\ Level(row) = 0

\* C10: the converter rejects a negative, NaN or infinite measurement with
\* InvalidMeasurement and returns no concentration.
C10_RejectsInvalidMeasurement ==
    (Converted(row) /\ row.no2_molm2 \in InvalidMeasurements)
        => row.exc = "InvalidMeasurement" /\ row.no2_ugm3 = NoFloat

\* C11: the classifier rejects a negative, NaN or infinite concentration with
\* InvalidConcentration and returns none of the six categories.
C11_RejectsInvalidConcentration ==
    (row.no2_ugm3 \in InvalidConcentrations /\ Classified(row))
        => row.exc = "InvalidConcentration" /\ row.aqi = NoAqi

Negative(x) == x.k = "fin" /\ x.s = 1 /\ ~IsZero(x)

Returned(t) == threads[t].pc = "done"

\* a step of one thread changes nothing of another thread's frame but the
\* record that it was interleaved
Isolated ==
    \A t, u \in Threads :
        (t # u /\ [threads'[t] EXCEPT !.interleaved = FALSE]
                    # [threads[t] EXCEPT !.interleaved = FALSE])
            => [threads'[u] EXCEPT !.interleaved = FALSE]
                 = [threads[u] EXCEPT !.interleaved = FALSE]

ResultAsAlone ==
    \A t \in Threads :
        Returned(t) =>
            /\ threads[t].fn = "convert_tempo_to_ugm3"
                 => threads[t].ret = convert_tempo_to_ugm3(threads[t].arg)
            /\ threads[t].fn = "calculate_aqi_no2"
                 => threads[t].ret_aqi = calculate_aqi_no2(threads[t].arg)

\* C13: under concurrent invocation every call of convert or classify returns
\* what it returns when run alone, and no step of a call changes the state of
\* another call.
C13_ThreadSafe == []ResultAsAlone /\ [][Isolated]_vars

C13_Witness ==
    /\ Returned(1) /\ threads[1].interleaved
    /\ Returned(2) /\ threads[2].interleaved
    /\ threads[1].fn = "convert_tempo_to_ugm3"
    /\ threads[2].fn = "convert_tempo_to_ugm3"
    /\ threads[1].arg # threads[2].arg
    /\ threads[1].ret = convert_tempo_to_ugm3(threads[1].arg)
    /\ threads[2].ret = convert_tempo_to_ugm3(threads[2].arg)

\* positions of a run of src/app.py
AfterAlertLoop == run.variant = "app" /\ run.pc \in {"summary", "export", "footer", "done"}
AfterSummary == run.variant = "app" /\ run.pc \in {"export", "footer", "done"}
Rows == 1..N(run)
StoredLevel(i) == run.aqi[i][3]

\* the two functions tabulated over the measurements a table can hold
ConvertedOf == [m \in RunMeasurements |-> convert_tempo_to_ugm3(m)]
TripleOf == [m \in RunMeasurements |-> calculate_aqi_no2(convert_tempo_to_ugm3(m))]

\* C14: in a dashboard run the stored (aqi_category, aqi_color, aqi_level) of
\* every row is calculate_aqi_no2(convert_tempo_to_ugm3(no2_molm2)) of that
\* row, the marker colour is the stored aqi_color, and the alert box is a
\* function of the stored aqi_level.
C14_StoredTripleDrivesDisplay ==
    (run.variant = "app" /\ "aqi_level" \in run.columns) =>
        /\ \A i \in Rows :
              /\ run.no2_ugm3[i] = ConvertedOf[run.table[i]]
              /\ run.aqi[i] = TripleOf[run.table[i]]
        /\ \A i \in DOMAIN run.markers :
              /\ run.markers[i].city = CityOf(i)
              /\ run.markers[i].color = run.aqi[i][2]
        /\ \A i \in DOMAIN run.alerts :
              /\ run.alerts[i].category = run.aqi[i][1]
              /\ \A j \in DOMAIN run.alerts :
                    StoredLevel(i) = StoredLevel(j)
                        => run.alerts[i].box = run.alerts[j].box

C14_Witness ==
    /\ run.variant = "app" /\ run.pc = "done"
    /\ run.table = <<Dec(2, 3), Dec(8, 3)>>
    /\ run.aqi = <<calculate_aqi_no2(convert_tempo_to_ugm3(Dec(2, 3))),
                   calculate_aqi_no2(convert_tempo_to_ugm3(Dec(8, 3)))>>
    /\ run.markers = << [city |-> "Washington DC", color |-> "#FFFF00"],
                        [city |-> "Los Angeles", color |-> "#FF0000"] >>
    /\ run.alerts = << [city |-> "Washington DC", box |-> "success",
                         category |-> "Moderate"],
                       [city |-> "Los Angeles", box |-> "error",
                         category |-> "Unhealthy"] >>

\* C15: the alert loop emits exactly one box per city, in table order: the
\* error box for level >= 3, the warning box for level 2, the success box for
\* level 0 or 1.
C15_OneBoxPerCityByLevel ==
    run.variant = "app" =>
        /\ Len(run.alerts) <= N(run)
        /\ AfterAlertLoop => Len(run.alerts) = N(run)
        /\ \A i \in DOMAIN run.alerts :
              /\ run.alerts[i].city = CityOf(i)
              /\ StoredLevel(i) >= 3 => run.alerts[i].box = "error"
              /\ StoredLevel(i) = 2 => run.alerts[i].box = "warning"
              /\ StoredLevel(i) \in {0, 1} => run.alerts[i].box = "success"

C15_Witness ==
    /\ AfterAlertLoop
    /\ N(run) = 2
    /\ <<StoredLevel(1), StoredLevel(2)>> = <<2, 3>>
    /\ run.alerts = << [city |-> "Washington DC", box |-> "warning",
                         category |-> "Unhealthy for Sensitive Groups"],
                       [city |-> "Los Angeles", box |-> "error",
                         category |-> "Unhealthy"] >>

CitySpecific(recs) == {i \in DOMAIN recs : recs[i].city # "None"}

\* C16: after the alert loop alert_count is the number of cities with level
\* >= 3 and so is the number of city-specific recommendations; the summary is
\* the warning with the recommendations expander exactly when alert_count > 0.
C16_AlertCountAndSummary ==
    /\ AfterAlertLoop =>
          /\ run.alert_count = Cardinality({i \in Rows : StoredLevel(i) >= 3})
          /\ Cardinality(CitySpecific(run.recommendations)) = run.alert_count
          /\ Len(run.recommendations) = run.alert_count
    /\ AfterSummary =>
          /\ run.alert_count > 0 <=> run.summary = "warning"
          /\ run.alert_count > 0 <=> run.expander # <<>>
          /\ run.alert_count > 0 =>
                Cardinality(CitySpecific(run.expander)) = run.alert_count

C16_Witness ==
    /\ AfterSummary
    /\ N(run) = 2
    /\ <<StoredLevel(1), StoredLevel(2)>> = <<5, 2>>
    /\ run.alert_count = 1
    /\ run.recommendations = <<Recommendation("Washington DC")>>
    /\ run.summary = "warning"
    /\ run.expander = <<Recommendation("Washington DC")>> \o GenericActions

FetchExceptions == {"Timeout", "JSONDecodeError"}

\* C18: fetch_waqi_data and fetch_weather_data never raise; for an exception
\* in the request or the parsing, and for a WAQI status other than "ok", they
\* return (None, None, None) and (None, "N/A", None, None), and the calling
\* loop records None (weather text "N/A") for that city and goes on.
C18_FetchFailureRecordsNone ==
    /\ \A reply \in WaqiReplies, i \in 1..MaxRows :
          LET out == fetch_waqi_data(WaqiFeed(reply, i))
          IN  /\ out.exc = "None"
              /\ WaqiFailed(reply) => out.ret = <<None, None, None>>
    /\ \A reply \in WeatherReplies, i \in 1..MaxRows :
          LET out == fetch_weather_data(WeatherReport(reply, i))
          IN  /\ out.exc = "None"
              /\ WeatherFailed(reply) => out.ret = <<None, "N/A", None, None>>
    /\ run.variant = "app" =>
          /\ run.error \notin FetchExceptions
          /\ \A i \in DOMAIN run.waqi_replies :
                run.waqi_replies[i] = "failed" =>
                    /\ i <= Len(run.ground_data_list)
                    /\ run.ground_data_list[i] = None
                    /\ run.ground_aqi_list[i] = None
                    /\ run.ground_stations[i] = Some(CityOf(i))
          /\ \A i \in DOMAIN run.weather_replies :
                run.weather_replies[i] = "failed" =>
                    /\ i <= Len(run.weather_info)
                    /\ run.weather_info[i] = NA
                    /\ run.temperatures[i] = None
                    /\ run.humidities[i] = None
                    /\ run.pressures[i] = None

C18_Witness ==
    /\ run.variant = "app" /\ run.pc = "map"
    /\ run.waqi_replies = <<"failed", "ok">>
    /\ run.ground_data_list = <<None, Some(12)>>
    /\ run.ground_aqi_list = <<None, Some(42)>>
    /\ run.ground_stations = <<Some("Washington DC"), Some("Station")>>
    /\ run.weather_replies = <<"failed", "ok">>
    /\ run.weather_info = <<NA, WeatherText(Some(22), "clear sky")>>
    /\ run.temperatures = <<None, Some(22)>>

GroundLists(r) ==
    IF r.variant = "app"
    THEN <<r.ground_data_list, r.ground_aqi_list, r.ground_stations>>
    ELSE <<r.ground_data_list>>
WeatherLists(r) ==
    IF r.variant = "app"
    THEN <<r.weather_info, r.temperatures, r.humidities, r.pressures>>
    ELSE <<r.weather_info, r.temperatures>>

\* C19: in all three scripts every iteration of a fetch loop, whatever the
\* fetch gave, appends exactly one entry to each of the loop's lists, so at
\* the end of the loop each list has one entry per table row and entry i is
\* city i's.
C19_OneEntryPerCity ==
    run.variant # "None" =>
        /\ \A k \in DOMAIN GroundLists(run) :
              Len(GroundLists(run)[k]) = Len(run.waqi_replies)
        /\ \A k \in DOMAIN WeatherLists(run) :
              Len(WeatherLists(run)[k]) = Len(run.weather_replies)
        /\ "ground_no2" \in run.columns
              => \A k \in DOMAIN GroundLists(run) : Len(GroundLists(run)[k]) = N(run)
        /\ "weather" \in run.columns
              => \A k \in DOMAIN WeatherLists(run) : Len(WeatherLists(run)[k]) = N(run)
        /\ \A i \in DOMAIN run.ground_data_list :
              run.ground_data_list[i] \in {None, Some(10 + i)}
        /\ \A i \in DOMAIN run.ground_stations :
              run.ground_stations[i] \in {Some(CityOf(i)), Some("Station")}
        /\ \A i \in DOMAIN run.temperatures :
              run.temperatures[i] \in {None, Some(20 + i)}
        /\ \A i \in DOMAIN run.weather_info :
              run.weather_info[i] \in {NA, WeatherText(Some(20 + i), "clear sky")}

C19_Witness ==
    /\ run.variant = "hackathon_test" /\ run.pc = "done"
    /\ run.waqi_replies = <<"ok", "failed">>
    /\ run.ground_data_list = <<Some(11), None>>
    /\ run.weather_info = <<NA, WeatherText(Some(22), "clear sky")>>
    /\ run.temperatures = <<None, Some(22)>>
    /\ {"ground_no2", "weather", "temperature"} \subseteq run.columns

\* C20: for every combination of the three checkboxes the run reaches the
\* export and the footer: no read of a column by the map popup, the tabs, the
\* alert loop or the export finds the column missing.
C20_EveryRunReachesFooter ==
    run.variant = "app" => run.pc # "crashed" /\ run.error = "None"

Good == <<"Good", "#00E400", 0>>

\* the classification of each sample measurement
SampleTriples ==
    [i \in DOMAIN tempo_data_original |->
        calculate_aqi_no2(convert_tempo_to_ugm3(tempo_data_original[i].no2_molm2))]

\* C21: the eight sample measurements all classify as Good, level 0, so in
\* every run over the sample table the "Areas Needing Attention" metric is
\* 0, alert_count is 0, every alert box is a success box and recommendations
\* stays empty, whatever the fetches return.
C21_SampleAllGood ==
    /\ \A i \in DOMAIN tempo_data_original : SampleTriples[i] = Good
    /\ (run.variant = "app" /\ run.table = SampleTable) =>
          /\ "aqi_level" \in run.columns =>
                /\ \A i \in Rows : run.aqi[i] = Good
                /\ run.unhealthy = Some(0)
          /\ run.alert_count = 0
          /\ run.recommendations = <<>>
          /\ \A i \in DOMAIN run.alerts : run.alerts[i].box = "success"
          /\ AfterAlertLoop => Len(run.alerts) = Len(tempo_data_original)
          /\ AfterSummary => run.summary = "Excellent" /\ run.expander = <<>>

C21_Witness ==
    /\ run.variant = "app" /\ run.pc = "done"
    /\ run.table = SampleTable /\ N(run) = 8
    /\ run.waqi_replies[1] = "failed" /\ run.weather_replies[8] = "failed"
    /\ run.ground_data_list[2] = Some(12)
    /\ run.unhealthy = Some(0)
    /\ Len(run.alerts) = 8
    /\ \A i \in DOMAIN run.alerts : run.alerts[i].box = "success"
    /\ run.alert_count = 0 /\ run.recommendations = <<>>
    /\ run.summary = "Excellent"

====
